---- MODULE Spec2Model ----
(***************************************************************************)
(* Model of the weewx Meteostick driver (bin/user/meteostick.py):          *)
(* the configuration handshake of Meteostick.configure, the bounded retry  *)
(* of Meteostick.get_readings_with_retry, the line decoder                 *)
(* Meteostick.parse_readings and the packet/rain conversion of             *)
(* MeteostickDriver._data_to_packet, driven by genLoopPackets.             *)
(*                                                                         *)
(* Serial data are TLA+ strings; a character is a string of length 1.      *)
(* Python floats are held as integers in thousandths (3.5 is 3500), so     *)
(* every value of the model is exact.  A Python value is a tagged tuple:   *)
(* <<"int", n>>, <<"float", thousandths>> or <<"None">>.  A dict is a      *)
(* function whose domain is its set of keys.                               *)
(***************************************************************************)
EXTENDS Integers, Sequences, FiniteSets, TLC

(***************************************************************************)
(* Bounds of the model.                                                    *)
(***************************************************************************)
MaxTriesCfg == 2        \* max_tries is drawn from 0..MaxTriesCfg
MaxInbuf == 2           \* bytes the device may have pending in the input buffer
MaxSens == 140          \* sensitivity requests are drawn from -MaxSens..MaxSens
MaxTotalFails == 3      \* the session's count of failed reads stops here
MaxRfSamples == 1       \* samples held in rf_stats before the 300 s report resets it

(***************************************************************************)
(* Python values.                                                          *)
(***************************************************************************)
None == <<"None">>
PyI(n) == <<"int", n>>
PyF(m) == <<"float", m>>
IsNone(v) == v[1] = "None"
\* numeric value of an int or float, in thousandths
Milli(v) == IF v[1] = "int" THEN v[2] * 1000 ELSE v[2]

EmptyDict == [k \in {} |-> None]
DictSet(d, k, v) == [x \in (DOMAIN d) \cup {k} |-> IF x = k THEN v ELSE d[x]]

(***************************************************************************)
(* String primitives of Python used by the driver.                         *)
(***************************************************************************)
CharAt(s, i) == SubSeq(s, i, i)
Whitespace == {" ", "\t", "\n", "\r"}
Digits == {"0", "1", "2", "3", "4", "5", "6", "7", "8", "9"}

DigitVal(c) ==
  CASE c = "0" -> 0 [] c = "1" -> 1 [] c = "2" -> 2 [] c = "3" -> 3
    [] c = "4" -> 4 [] c = "5" -> 5 [] c = "6" -> 6 [] c = "7" -> 7
    [] c = "8" -> 8 [] c = "9" -> 9

DigitChar(d) ==
  CASE d = 0 -> "0" [] d = 1 -> "1" [] d = 2 -> "2" [] d = 3 -> "3"
    [] d = 4 -> "4" [] d = 5 -> "5" [] d = 6 -> "6" [] d = 7 -> "7"
    [] d = 8 -> "8" [] d = 9 -> "9"

\* str.strip(chars): drop leading and trailing characters of the set
RECURSIVE LStrip(_, _)
LStrip(s, chars) ==
  IF Len(s) > 0 /\ CharAt(s, 1) \in chars THEN LStrip(Tail(s), chars) ELSE s

RECURSIVE RStrip(_, _)
RStrip(s, chars) ==
  IF Len(s) > 0 /\ CharAt(s, Len(s)) \in chars
  THEN RStrip(SubSeq(s, 1, Len(s) - 1), chars) ELSE s

Strip(s, chars) == RStrip(LStrip(s, chars), chars)

\* str.split(' '): cut at every single space; two spaces give an empty token
RECURSIVE SplitFrom(_, _, _)
SplitFrom(s, i, start) ==
  IF i > Len(s) THEN << SubSeq(s, start, Len(s)) >>
  ELSE IF CharAt(s, i) = " "
       THEN << SubSeq(s, start, i - 1) >> \o SplitFrom(s, i + 1, i + 1)
       ELSE SplitFrom(s, i + 1, start)

Split(s) == SplitFrom(s, 1, 1)

\* a in b for strings: a is a substring of b
IsSubstring(a, b) ==
  \E i \in 1..(Len(b) - Len(a) + 1) : SubSeq(b, i, i + Len(a) - 1) = a

AllDigits(s) == \A i \in 1..Len(s) : CharAt(s, i) \in Digits

RECURSIVE DigitsVal(_)
DigitsVal(s) ==
  IF Len(s) = 0 THEN 0
  ELSE DigitsVal(SubSeq(s, 1, Len(s) - 1)) * 10 + DigitVal(CharAt(s, Len(s)))

HasSign(s) == Len(s) > 0 /\ CharAt(s, 1) \in {"-", "+"}
Unsigned(s) == IF HasSign(s) THEN Tail(s) ELSE s
SignOf(s) == IF Len(s) > 0 /\ CharAt(s, 1) = "-" THEN -1 ELSE 1

\* int(s): an optional sign and at least one digit, else ValueError
IntOk(s) == Len(Unsigned(s)) > 0 /\ AllDigits(Unsigned(s))
IntVal(s) == SignOf(s) * DigitsVal(Unsigned(s))

\* float(s) for the decimal forms  [sign] digits [ . digits ]  with at least
\* one digit; the value is in thousandths (fraction digits beyond the third
\* are not part of the line catalogue below)
DotPos(s) == IF \E i \in 1..Len(s) : CharAt(s, i) = "."
             THEN CHOOSE i \in 1..Len(s) :
                    CharAt(s, i) = "." /\ \A j \in 1..(i - 1) : CharAt(s, j) # "."
             ELSE 0
IntPart(s) == IF DotPos(s) = 0 THEN s ELSE SubSeq(s, 1, DotPos(s) - 1)
FracPart(s) == IF DotPos(s) = 0 THEN "" ELSE SubSeq(s, DotPos(s) + 1, Len(s))
Pad3(f) == IF Len(f) >= 3 THEN SubSeq(f, 1, 3)
           ELSE IF Len(f) = 2 THEN f \o "0"
           ELSE IF Len(f) = 1 THEN f \o "00" ELSE "000"

FloatOk(s) ==
  LET u == Unsigned(s) IN
    /\ AllDigits(IntPart(u))
    /\ AllDigits(FracPart(u))
    /\ Len(IntPart(u)) + Len(FracPart(u)) > 0
FloatVal(s) ==
  LET u == Unsigned(s) IN
    SignOf(s) * (DigitsVal(IntPart(u)) * 1000 + DigitsVal(Pad3(FracPart(u))))

\* str(n) of an integer
RECURSIVE NatStr(_)
NatStr(n) == IF n < 10 THEN DigitChar(n) ELSE NatStr(n \div 10) \o DigitChar(n % 10)
Str(n) == IF n < 0 THEN "-" \o NatStr(-n) ELSE NatStr(n)

RECURSIVE Pow2(_)
Pow2(k) == IF k = 0 THEN 1 ELSE 2 * Pow2(k - 1)

Abs(n) == IF n < 0 THEN -n ELSE n

(***************************************************************************)
(* Meteostick.sens_to_threshold and Meteostick.ch_to_xmit.                 *)
(***************************************************************************)
DEFAULT_RF_SENSITIVITY == 90

\* the range test made on the request, before the rounding
sens_to_threshold_clampfirst(rf_sens_request) ==
  LET s == IF Abs(rf_sens_request) > 125 THEN DEFAULT_RF_SENSITIVITY
           ELSE ((Abs(rf_sens_request) + 2) \div 5) * 5
  IN << s * 2, s >>

\* returns <<threshold, actual sensitivity>>; "/" is Python 2 integer division
sens_to_threshold_truncating(rf_sens_request) ==
  LET s0 == (Abs(rf_sens_request) \div 5) * 5
      s == IF s0 > 125 THEN DEFAULT_RF_SENSITIVITY ELSE s0
  IN << s * 2, s >>

sens_to_threshold(rf_sens_request) ==
  LET s0 == ((Abs(rf_sens_request) + 2) \div 5) * 5
      s == IF s0 > 125 THEN DEFAULT_RF_SENSITIVITY ELSE s0
  IN << s * 2, s >>

\* 1 << (channel - 1), added (not or-ed) for iss and every non-zero channel
ch_to_xmit(iss, anemometer, leaf_soil, th1, th2) ==
  Pow2(iss - 1)
  + (IF anemometer # 0 THEN Pow2(anemometer - 1) ELSE 0)
  + (IF leaf_soil # 0 THEN Pow2(leaf_soil - 1) ELSE 0)
  + (IF th1 # 0 THEN Pow2(th1 - 1) ELSE 0)
  + (IF th2 # 0 THEN Pow2(th2 - 1) ELSE 0)

(***************************************************************************)
(* Meteostick.parse_readings.  Each branch of the code is a list of        *)
(* assignments data[key] = conversion(token) in program order; the first   *)
(* conversion that raises ValueError ends the list (the except clause      *)
(* logs and falls through to "return data"), so the assignments made       *)
(* before it stay in the result.                                           *)
(***************************************************************************)
Const(k, v) == [key |-> k, kind |-> "const", tok |-> "", val |-> v]
ToInt(k, t) == [key |-> k, kind |-> "int", tok |-> t, val |-> None]
ToFloat(k, t) == [key |-> k, kind |-> "float", tok |-> t, val |-> None]
\* 100.0 - float(tok.strip('%'))
ToPct(k, t) == [key |-> k, kind |-> "pct", tok |-> t, val |-> None]

ConvOk(a) ==
  CASE a.kind = "const" -> TRUE
    [] a.kind = "int" -> IntOk(a.tok)
    [] a.kind = "float" -> FloatOk(a.tok)
    [] a.kind = "pct" -> FloatOk(Strip(a.tok, {"%"}))

ConvVal(a) ==
  CASE a.kind = "const" -> a.val
    [] a.kind = "int" -> PyI(IntVal(a.tok))
    [] a.kind = "float" -> PyF(FloatVal(a.tok))
    [] a.kind = "pct" -> PyF(100000 - FloatVal(Strip(a.tok, {"%"})))

RECURSIVE ApplyAssigns(_, _)
ApplyAssigns(d, as) ==
  IF Len(as) = 0 THEN d
  ELSE IF ConvOk(Head(as))
       THEN ApplyAssigns(DictSet(d, Head(as).key, ConvVal(Head(as))), Tail(as))
       ELSE d

\* parts[i] with the index of the Python list
Part(parts, i) == parts[i + 1]

\* bat = 1 if n >= k + 1 and parts[k] == 'L' else 0
BatFlag(parts, k) ==
  IF Len(parts) >= k + 1 /\ Part(parts, k) = "L" THEN PyI(1) ELSE PyI(0)

\* the channel the branch has stored in data['channel'] (used after int() passed)
ChannelOf(parts) == IF IntOk(Part(parts, 1)) THEN IntVal(Part(parts, 1)) ELSE 0

AssignsB(parts) ==
  << Const("channel", PyI(0)), Const("rf_signal", PyI(0)) >>
  \o (IF Len(parts) >= 3
      THEN << ToFloat("in_temp", Part(parts, 1)),
              ToFloat("pressure", Part(parts, 2)) >>
           \o (IF Len(parts) >= 4
               THEN << ToPct("pct_good", Part(parts, 3)) >> ELSE << >>)
      ELSE << >>)

\* the channel tests without "!= 0"
AssignsWT_plainequal(parts, iss_ch, th1_ch, th2_ch) ==
  IF Len(parts) >= 5
  THEN << ToInt("channel", Part(parts, 1)),
          ToFloat("rf_signal", Part(parts, 4)) >>
       \o (IF Part(parts, 0) = "W"
           THEN << Const(IF ChannelOf(parts) = iss_ch
                         THEN "bat_iss" ELSE "bat_anemometer",
                         BatFlag(parts, 5)),
                   ToFloat("wind_speed", Part(parts, 2)),
                   ToFloat("wind_dir", Part(parts, 3)) >>
           ELSE IF Part(parts, 0) = "T"
           THEN IF ChannelOf(parts) = th1_ch
                THEN << Const("bat_th_1", BatFlag(parts, 5)),
                        ToFloat("temp_1", Part(parts, 2)),
                        ToFloat("humid_1", Part(parts, 3)) >>
                ELSE IF ChannelOf(parts) = th2_ch
                THEN << Const("bat_th_2", BatFlag(parts, 5)),
                        ToFloat("temp_2", Part(parts, 2)),
                        ToFloat("humid_2", Part(parts, 3)) >>
                ELSE << Const("bat_iss", BatFlag(parts, 5)),
                        ToFloat("temperature", Part(parts, 2)),
                        ToFloat("humidity", Part(parts, 3)) >>
           ELSE << >>)
  ELSE << >>

AssignsWT(parts, iss_ch, th1_ch, th2_ch) ==
  IF Len(parts) >= 5
  THEN << ToInt("channel", Part(parts, 1)),
          ToFloat("rf_signal", Part(parts, 4)) >>
       \o (IF Part(parts, 0) = "W"
           THEN << Const(IF iss_ch # 0 /\ ChannelOf(parts) = iss_ch
                         THEN "bat_iss" ELSE "bat_anemometer",
                         BatFlag(parts, 5)),
                   ToFloat("wind_speed", Part(parts, 2)),
                   ToFloat("wind_dir", Part(parts, 3)) >>
           ELSE IF Part(parts, 0) = "T"
           THEN IF th1_ch # 0 /\ ChannelOf(parts) = th1_ch
                THEN << Const("bat_th_1", BatFlag(parts, 5)),
                        ToFloat("temp_1", Part(parts, 2)),
                        ToFloat("humid_1", Part(parts, 3)) >>
                ELSE IF th2_ch # 0 /\ ChannelOf(parts) = th2_ch
                THEN << Const("bat_th_2", BatFlag(parts, 5)),
                        ToFloat("temp_2", Part(parts, 2)),
                        ToFloat("humid_2", Part(parts, 3)) >>
                ELSE << Const("bat_iss", BatFlag(parts, 5)),
                        ToFloat("temperature", Part(parts, 2)),
                        ToFloat("humidity", Part(parts, 3)) >>
           ELSE << >>)
  ELSE << >>

AssignsLMO(parts) ==
  IF Len(parts) >= 5
  THEN << ToInt("channel", Part(parts, 1)),
          ToFloat("rf_signal", Part(parts, 4)),
          Const("bat_soil_leaf", BatFlag(parts, 5)) >>
       \o (IF Part(parts, 0) = "L"
           THEN << ToFloat("leaf_wetness_" \o Part(parts, 2), Part(parts, 3)) >>
           ELSE IF Part(parts, 0) = "M"
           THEN << ToFloat("soil_moisture_" \o Part(parts, 2), Part(parts, 3)) >>
           ELSE IF Part(parts, 0) = "O"
           THEN << ToFloat("soil_temp_" \o Part(parts, 2), Part(parts, 3)) >>
           ELSE << >>)
  ELSE << >>

AssignsRSUP(parts) ==
  IF Len(parts) >= 4
  THEN << ToInt("channel", Part(parts, 1)),
          ToFloat("rf_signal", Part(parts, 3)),
          Const("bat_iss", BatFlag(parts, 4)) >>
       \o (IF Part(parts, 0) = "R"
           THEN << ToInt("rain_count", Part(parts, 2)) >>
           ELSE IF Part(parts, 0) = "S"
           THEN << ToFloat("solar_radiation", Part(parts, 2)) >>
           ELSE IF Part(parts, 0) = "U"
           THEN << ToFloat("uv", Part(parts, 2)) >>
           ELSE IF Part(parts, 0) = "P"
           THEN << ToFloat("solar_power", Part(parts, 2)) >>
           ELSE << >>)
  ELSE << >>

\* the if/elif chain on parts[0]; "in" is Python's substring test
BranchOf(parts) ==
  IF Part(parts, 0) = "B" THEN "B"
  ELSE IF IsSubstring(Part(parts, 0), "WT") THEN "WT"
  ELSE IF IsSubstring(Part(parts, 0), "LMO") THEN "LMO"
  ELSE IF IsSubstring(Part(parts, 0), "RSUP") THEN "RSUP"
  ELSE IF IsSubstring(Part(parts, 0), "#") THEN "#"
  ELSE "unknown"

NewData == [k \in {"channel", "rf_signal"} |-> None]

\* "if not raw: return None": the dict without keys stands for None (both
\* are false in "if data:", and every dict the code builds has two keys)
parse_readings_unknown_none(raw, iss_ch, th1_ch, th2_ch) ==
  IF raw = "" \/ BranchOf(Split(raw)) = "unknown" THEN EmptyDict
  ELSE LET parts == Split(raw)
           b == BranchOf(parts)
           as == CASE b = "B" -> AssignsB(parts)
                   [] b = "WT" -> AssignsWT(parts, iss_ch, th1_ch, th2_ch)
                   [] b = "LMO" -> AssignsLMO(parts)
                   [] b = "RSUP" -> AssignsRSUP(parts)
                   [] OTHER -> << >>
       IN ApplyAssigns(NewData, as)

parse_readings(raw, iss_ch, th1_ch, th2_ch) ==
  IF raw = "" THEN EmptyDict
  ELSE LET parts == Split(raw)
           b == BranchOf(parts)
           as == CASE b = "B" -> AssignsB(parts)
                   [] b = "WT" -> AssignsWT(parts, iss_ch, th1_ch, th2_ch)
                   [] b = "LMO" -> AssignsLMO(parts)
                   [] b = "RSUP" -> AssignsRSUP(parts)
                   [] OTHER -> << >>
       IN ApplyAssigns(NewData, as)

(***************************************************************************)
(* MeteostickDriver._data_to_packet with DEFAULT_SENSOR_MAP.               *)
(***************************************************************************)
DEFAULT_SENSOR_MAP ==
  [k \in {"pressure", "in_temp", "wind_speed", "wind_dir", "temperature",
          "humidity", "rain_count", "solar_radiation", "uv", "pct_good",
          "solar_power", "soil_temp_1", "soil_temp_2", "soil_temp_3",
          "soil_temp_4", "soil_moisture_1", "soil_moisture_2",
          "soil_moisture_3", "soil_moisture_4", "leaf_wetness_1",
          "leaf_wetness_2", "temp_1", "temp_2", "humid_1", "humid_2",
          "bat_iss", "bat_anemometer", "bat_soil_leaf", "bat_th_1",
          "bat_th_2"} |->
     CASE k = "pressure" -> "pressure"
       [] k = "in_temp" -> "inTemp"
       [] k = "wind_speed" -> "windSpeed"
       [] k = "wind_dir" -> "windDir"
       [] k = "temperature" -> "outTemp"
       [] k = "humidity" -> "outHumidity"
       [] k = "rain_count" -> "rain"
       [] k = "solar_radiation" -> "radiation"
       [] k = "uv" -> "UV"
       [] k = "pct_good" -> "rxCheckPercent"
       [] k = "solar_power" -> "extraTemp3"
       [] k = "soil_temp_1" -> "soilTemp1"
       [] k = "soil_temp_2" -> "soilTemp2"
       [] k = "soil_temp_3" -> "soilTemp3"
       [] k = "soil_temp_4" -> "soilTemp4"
       [] k = "soil_moisture_1" -> "soilMoist1"
       [] k = "soil_moisture_2" -> "soilMoist2"
       [] k = "soil_moisture_3" -> "soilMoist3"
       [] k = "soil_moisture_4" -> "soilMoist4"
       [] k = "leaf_wetness_1" -> "leafWet1"
       [] k = "leaf_wetness_2" -> "leafWet2"
       [] k = "temp_1" -> "extraTemp1"
       [] k = "temp_2" -> "extraTemp2"
       [] k = "humid_1" -> "extraHumid1"
       [] k = "humid_2" -> "extraHumid2"
       [] k = "bat_iss" -> "txBatteryStatus"
       [] k = "bat_anemometer" -> "windBatteryStatus"
       [] k = "bat_soil_leaf" -> "rainBatteryStatus"
       [] k = "bat_th_1" -> "outTempBatteryStatus"
       [] k = "bat_th_2" -> "inTempBatteryStatus"]

METRICWX == 17
\* int(time.time() + 0.5): the clock is not modelled
Time == <<"time">>

\* packet after the loop "for k in data: if k in sensor_map: ..."
MappedPacket(d) ==
  LET ks == (DOMAIN d) \cap (DOMAIN DEFAULT_SENSOR_MAP)
      fs == {DEFAULT_SENSOR_MAP[k] : k \in ks}
  IN [f \in {"dateTime", "usUnits"} \cup fs |->
        IF f \in fs THEN d[CHOOSE k \in ks : DEFAULT_SENSOR_MAP[k] = f]
        ELSE IF f = "dateTime" THEN Time ELSE PyI(METRICWX)]

\* the wrap taken at 256
RainDelta_wrap256(last, count) ==
  LET rc == IF ~IsNone(last) THEN count - last[2] ELSE 0
  IN IF rc < 0 THEN rc + 256 ELSE rc

\* the rain delta of lines 203-209
RainDelta(last, count) ==
  LET rc == IF ~IsNone(last) THEN count - last[2] ELSE 0
  IN IF rc < 0 THEN rc + 128 ELSE rc

\* the delta, not the raw count, kept as the baseline
data_to_packet_keepdelta(d, last, per_tip) ==
  LET p == MappedPacket(d) IN
    IF "rain" \in DOMAIN p
    THEN [packet |-> DictSet(p, "rain", PyF(RainDelta(last, p["rain"][2]) * per_tip)),
          last_rain_count |-> PyI(RainDelta(last, p["rain"][2]))]
    ELSE [packet |-> p, last_rain_count |-> last]

\* the baseline taken from the packet, whether it has rain or not
data_to_packet_resets(d, last, per_tip) ==
  LET p == MappedPacket(d) IN
    IF "rain" \in DOMAIN p
    THEN [packet |-> DictSet(p, "rain", PyF(RainDelta(last, p["rain"][2]) * per_tip)),
          last_rain_count |-> p["rain"]]
    ELSE [packet |-> p, last_rain_count |-> None]

\* returns the packet and the new self.last_rain_count
data_to_packet(d, last, per_tip) ==
  LET p == MappedPacket(d) IN
    IF "rain" \in DOMAIN p
    THEN [packet |-> DictSet(p, "rain", PyF(RainDelta(last, p["rain"][2]) * per_tip)),
          last_rain_count |-> p["rain"]]
    ELSE [packet |-> p, last_rain_count |-> last]

(***************************************************************************)
(* MeteostickDriver._init_rf_stats and _update_rf_stats (DEBUG_RFS only).  *)
(* The lists have 9 entries; values are in thousandths.                    *)
(***************************************************************************)
init_rf_stats ==
  [min |-> [i \in 0..8 |-> 0], max |-> [i \in 0..8 |-> -125000],
   sum |-> [i \in 0..8 |-> 0], cnt |-> [i \in 0..8 |-> 0],
   last |-> [i \in 0..8 |-> 0]]

Min2(a, b) == IF a < b THEN a ELSE b

\* what _update_rf_stats(data['channel'], data['rf_signal']) raises:
\* a None index is a TypeError, an index outside the list an IndexError,
\* and "sum += None" a TypeError (Python 2 lets min(None, x) pass)
update_rf_error(d) ==
  IF IsNone(d["channel"]) THEN "TypeError"
  ELSE IF d["channel"][2] \notin -9..8 THEN "IndexError"
  ELSE IF IsNone(d["rf_signal"]) THEN "TypeError"
  ELSE "ok"

\* a negative index counts from the end of the list
ListIndex(ch) == IF ch < 0 THEN ch + 9 ELSE ch

update_rf_stats(st, chv, sigv) ==
  LET ch == ListIndex(chv[2])
      signal == Milli(sigv)
  IN [min |-> [st.min EXCEPT ![ch] = Min2(signal, st.min[ch])],
      max |-> [st.max EXCEPT ![ch] = Min2(signal, st.max[ch])],
      sum |-> [st.sum EXCEPT ![ch] = st.sum[ch] + signal],
      cnt |-> [st.cnt EXCEPT ![ch] = st.cnt[ch] + 1],
      last |-> [st.last EXCEPT ![ch] = signal]]

RECURSIVE SumTo(_, _)
SumTo(f, i) == IF i < 0 THEN 0 ELSE f[i] + SumTo(f, i - 1)
Samples(st) == SumTo(st.cnt, 8)

(***************************************************************************)
(* The station configurations (stn_dict) and the bytes on the wire.        *)
(***************************************************************************)
StnDict(freq, iss, an, ls, th1, th2, bucket, tries, dbg) ==
  [transceiver_frequency |-> freq, rf_sensitivity |-> 90, iss_channel |-> iss,
   anemometer_channel |-> an, leaf_soil_channel |-> ls,
   temp_hum_1_channel |-> th1, temp_hum_2_channel |-> th2,
   rain_bucket_type |-> bucket, max_tries |-> tries,
   debug_rf_sensitivity |-> dbg]

StnDicts ==
  {StnDict("EU", 1, 0, 0, 0, 0, 1, t, d) : t \in 0..MaxTriesCfg, d \in {0, 1}}
  \cup {StnDict("EU", 1, 4, 5, 2, 3, 1, t, d) : t \in 1..MaxTriesCfg, d \in {0, 1}}
  \cup {StnDict(f, 1, 0, 0, 0, 0, 0, 1, 0) : f \in {"AU", "US", "XX"}}

DeviceBytes == {"?", "x", "\n"}

RainCounts == {0, 3, 5, 10, 127, 200}

Bodies ==
  {"", "B 21.5 1013.2 3%", "B 21.5", "B 21.5 x",
   "W 1 3.5 270 -60", "W 2 3.5 270 -60 L", "W 1 2", "W 1 x 270 -60",
   "W x 3.5 270 -60", "W 1 3.5 270 x", "W 9 3.5 270 -60",
   "T 1 20.5 55 -60", "T 2 20.5 55 -60", "T 3 20.5 55 -60 L",
   "T 2 20.5 x -60",
   "L 4 1 7 -60", "M 4 2 50 -60 L", "O 4 1 12.5 -60", "L 4 1 7",
   "R 1 x -60", "R 1 5 x", "R 1 5", "RS 1 5 -60",
   "S 1 500 -60", "U 1 3.2 -60", "P 1 40 -60",
   "# MeteoStick", "Z 1 2 3", "WT 4 1 2 -60"}
  \cup {"R 1 " \o Str(n) \o " -60" : n \in RainCounts}

\* what readline() can return: a terminated line, or nothing on a timeout
WireLines == {b \o "\r\n" : b \in Bodies} \cup {""}

(***************************************************************************)
(* State.                                                                  *)
(***************************************************************************)
VARIABLES
  frequency, rf_threshold, transmitters,  \* Meteostick fields
  iss_channel, temp_hum_1_channel, temp_hum_2_channel,
  rain_per_tip,                           \* thousandths of a mm per tip
  max_tries, DEBUG_RFS,
  last_rain_count, rf_stats,
  pc,          \* "unopened", "opened", "resetting", "configuring",
               \* "streaming", "raised"
  exc,         \* the exception that left the driver, "none" before
  ready,       \* the flag of configure(): the '?' has been read
  step,        \* the next send_command of configure(), 1..5; 6 when done
  written,     \* the commands written to the serial port, in order
  inbuf,       \* bytes the device has sent and the driver has not read
  call,        \* the current or last call of get_readings_with_retry
  buf,         \* the bytes the last readline() returned
  readings, data, packet, \* locals of the last iteration of genLoopPackets
  yielded,     \* the last iteration yielded its packet
  streak,      \* history: failed reads since the last read that returned
  total_fails, \* history: failed reads of the session, up to MaxTotalFails
  args,        \* the arguments of a direct call of a static method
  result       \* what that call returned, Unset before it returns

vars == << frequency, rf_threshold, transmitters, iss_channel,
           temp_hum_1_channel, temp_hum_2_channel, rain_per_tip, max_tries,
           DEBUG_RFS, last_rain_count, rf_stats, pc, exc, ready, step,
           written, inbuf, call, buf, readings, data, packet, yielded,
           streak, total_fails, args, result >>

cfgVars == << frequency, rf_threshold, transmitters, iss_channel,
              temp_hum_1_channel, temp_hum_2_channel, rain_per_tip,
              max_tries, DEBUG_RFS >>

loopVars == << last_rain_count, rf_stats, call, buf, readings, data, packet,
               yielded, streak, total_fails >>

fnVars == << args, result >>

Unset == <<"unset">>

NoCall == [attempts |-> 0, fails |-> 0, sleeps |-> 0, outcome |-> "none"]

\* MeteostickDriver.__init__ up to the construction of the Meteostick
InitOf(stn) ==
    /\ frequency = stn.transceiver_frequency
    /\ rf_threshold = sens_to_threshold(stn.rf_sensitivity)[1]
    /\ transmitters = ch_to_xmit(stn.iss_channel, stn.anemometer_channel,
                                 stn.leaf_soil_channel, stn.temp_hum_1_channel,
                                 stn.temp_hum_2_channel)
    /\ iss_channel = stn.iss_channel
    /\ temp_hum_1_channel = stn.temp_hum_1_channel
    /\ temp_hum_2_channel = stn.temp_hum_2_channel
    /\ rain_per_tip = IF stn.rain_bucket_type = 0 THEN 254 ELSE 200
    /\ max_tries = stn.max_tries
    /\ DEBUG_RFS = stn.debug_rf_sensitivity
    /\ last_rain_count = None
    /\ rf_stats = IF stn.debug_rf_sensitivity # 0 THEN init_rf_stats ELSE EmptyDict
    /\ pc = "unopened"
    /\ exc = "none"
    /\ ready = FALSE
    /\ step = 1
    /\ written = << >>
    /\ inbuf = ""
    /\ call = NoCall
    /\ buf = ""
    /\ readings = ""
    /\ data = EmptyDict
    /\ packet = EmptyDict
    /\ yielded = FALSE
    /\ streak = 0
    /\ total_fails = 0

Init ==
  /\ \E stn \in StnDicts : InitOf(stn)
  /\ args = << >>
  /\ result = Unset

(***************************************************************************)
(* Direct calls of the static methods.  The driver is not running: its     *)
(* variables keep the values of a default construction and only args and   *)
(* result change.                                                          *)
(***************************************************************************)
MaxChannel == 8         \* "A channel has value 0-8"

DefaultStn == StnDict("EU", 1, 0, 0, 0, 0, 1, 10, 0)

\* ch_to_xmit(iss_channel, anemometer_channel, leaf_soil_channel,
\*            temp_hum_1_channel, temp_hum_2_channel)
XmitArgs ==
  {<<"ch_to_xmit", i, a, l, t1, t2>> :
     i \in 1..MaxChannel, a \in 0..MaxChannel, l \in 0..MaxChannel,
     t1 \in 0..MaxChannel, t2 \in 0..MaxChannel}

InitXmit ==
  /\ InitOf(DefaultStn)
  /\ args \in XmitArgs
  /\ result = Unset

call_ch_to_xmit ==
  /\ args \in XmitArgs
  /\ result = Unset
  /\ result' = PyI(ch_to_xmit(args[2], args[3], args[4], args[5], args[6]))
  /\ UNCHANGED << args, cfgVars, loopVars, pc, exc, ready, step, written,
                  inbuf >>

NextXmit == call_ch_to_xmit

SpecXmit == InitXmit /\ [][NextXmit]_vars


\* sens_to_threshold(rf_sens_request)
SensArgs == {<<"sens_to_threshold", r>> : r \in (-MaxSens)..MaxSens}

InitSens ==
  /\ InitOf(DefaultStn)
  /\ args \in SensArgs
  /\ result = Unset

call_sens_to_threshold ==
  /\ args \in SensArgs
  /\ result = Unset
  /\ result' = sens_to_threshold(args[2])
  /\ UNCHANGED << args, cfgVars, loopVars, pc, exc, ready, step, written,
                  inbuf >>

NextSens == call_sens_to_threshold

SpecSens == InitSens /\ [][NextSens]_vars

\* parse_readings(raw, iss_channel, th1_channel, th2_channel): the lines of
\* the streaming loop and lines with other first tokens under two
\* configurations, and W and T lines of every channel under every
\* configuration of the three channels
OtherBodies ==
  {"Z", "w 1 3.5 270 -60", "X 1 2 3 4 5", "BB 21.5 1013.2", "?",
   "LM 4 1 7 -60", "MO 4 1 7 -60", "SU 1 5 -60", "RSUP 1 5 -60", "## x"}

ChannelBodies ==
  {"W " \o Str(c) \o " 3.5 270 -60" \o l : c \in 0..MaxChannel, l \in {"", " L"}}
  \cup
  {"T " \o Str(c) \o " 20.5 55 -60" \o l : c \in 0..MaxChannel, l \in {"", " L"}}

ParseArgs ==
  {<<"parse_readings", b, cf[1], cf[2], cf[3]>> :
     b \in Bodies \cup OtherBodies, cf \in {<<1, 0, 0>>, <<1, 2, 3>>}}
  \cup
  {<<"parse_readings", b, i, t1, t2>> :
     b \in ChannelBodies, i \in 0..MaxChannel, t1 \in 0..MaxChannel,
     t2 \in 0..MaxChannel}

InitParse ==
  /\ InitOf(DefaultStn)
  /\ args \in ParseArgs
  /\ result = Unset

call_parse_readings ==
  /\ args \in ParseArgs
  /\ result = Unset
  /\ result' = parse_readings(args[2], args[3], args[4], args[5])
  /\ UNCHANGED << args, cfgVars, loopVars, pc, exc, ready, step, written,
                  inbuf >>

NextParse == call_parse_readings

SpecParse == InitParse /\ [][NextParse]_vars

(***************************************************************************)
(* The device and the transport.                                           *)
(***************************************************************************)
\* the device sends a byte (reset banner, sentinel, echo) during the handshake
DeviceEmits(c) ==
  /\ pc \in {"opened", "resetting", "configuring"}
  /\ Len(inbuf) < MaxInbuf
  /\ inbuf' = inbuf \o c
  /\ UNCHANGED << fnVars, cfgVars, loopVars, pc, exc, ready, step, written >>

\* a serial call of open() or configure() raises: nothing catches it
InitTransportError ==
  /\ pc \in {"unopened", "opened", "resetting", "configuring"}
  /\ pc' = "raised"
  /\ exc' = "SerialException"
  /\ UNCHANGED << fnVars, cfgVars, loopVars, ready, step, written, inbuf >>

(***************************************************************************)
(* Meteostick.open and Meteostick.configure.                               *)
(***************************************************************************)
open ==
  /\ pc = "unopened"
  /\ pc' = "opened"
  /\ UNCHANGED << fnVars, cfgVars, loopVars, exc, ready, step, written, inbuf >>

\* flushInput() and the write of the reset command
configure_reset ==
  /\ pc = "opened"
  /\ inbuf' = ""
  /\ written' = Append(written, "r\n")
  /\ pc' = "resetting"
  /\ UNCHANGED << fnVars, cfgVars, loopVars, exc, ready, step >>

HasChar(s, c) == \E i \in 1..Len(s) : CharAt(s, i) = c

\* the reset wait ended by any byte, not by the '?'
configure_wait_anybyte ==
  /\ pc = "resetting"
  /\ ready' = HasChar(inbuf, "?")
  /\ inbuf' = ""
  /\ pc' = IF Len(inbuf) > 0 THEN "configuring" ELSE "resetting"
  /\ UNCHANGED << fnVars, cfgVars, loopVars, exc, step, written >>

\* one round of "while not ready": sleep, read every waiting byte; when the
\* '?' was among them the loop ends and the input is flushed
configure_wait ==
  /\ pc = "resetting"
  /\ ready' = HasChar(inbuf, "?")
  /\ inbuf' = ""
  /\ pc' = IF HasChar(inbuf, "?") THEN "configuring" ELSE "resetting"
  /\ UNCHANGED << fnVars, cfgVars, loopVars, exc, step, written >>

NumCommands == 5

\* the band test with EU as the default
FrequencyCommand_defaultEU(freq) ==
  IF freq = "AU" THEN "m2\r" ELSE "m1\r"

FrequencyCommand(freq) ==
  IF freq = "AU" THEN "m2\r" ELSE IF freq = "EU" THEN "m1\r" ELSE "m0\r"

\* the five send_command calls of configure(), in program order
ConfigCommand(i) ==
  CASE i = 1 -> "x" \o Str(rf_threshold) \o "\r"
    [] i = 2 -> "t" \o Str(transmitters) \o "\r"
    [] i = 3 -> "f1\r"
    [] i = 4 -> "o1\r"
    [] i = 5 -> FrequencyCommand(frequency)

\* a send_command that goes on only when the device echoed something
send_command_awaits_echo ==
  /\ pc = "configuring"
  /\ step <= NumCommands
  /\ Len(inbuf) > 0
  /\ written' = Append(written, ConfigCommand(step))
  /\ inbuf' = ""
  /\ step' = step + 1
  /\ pc' = IF step = NumCommands THEN "streaming" ELSE "configuring"
  /\ UNCHANGED << fnVars, cfgVars, loopVars, exc, ready >>

\* write, sleep, read the echo (whatever it is), flushInput
send_command ==
  /\ pc = "configuring"
  /\ step <= NumCommands
  /\ written' = Append(written, ConfigCommand(step))
  /\ inbuf' = ""
  /\ step' = step + 1
  /\ pc' = IF step = NumCommands THEN "streaming" ELSE "configuring"
  /\ UNCHANGED << fnVars, cfgVars, loopVars, exc, ready >>

(***************************************************************************)
(* Meteostick.get_readings_with_retry and one iteration of                 *)
(* MeteostickDriver.genLoopPackets.  Each attempt of the retry loop is one *)
(* step; the attempt that returns also runs the rest of the iteration      *)
(* (parse_readings, _data_to_packet, the rf statistics and the yield).     *)
(***************************************************************************)
\* the call in progress: a call that returned or raised is over, the next
\* attempt belongs to a new call whose loop starts at ntries = 0
CurCall_carried == IF call.outcome = "raised" THEN NoCall ELSE call

CurCall == IF call.outcome = "running" THEN call ELSE NoCall

\* "return self.get_readings()" with a sleep on the way out
ReturnCall_sleeping(c) ==
  [attempts |-> c.attempts + 1, fails |-> c.fails, sleeps |-> c.sleeps + 1,
   outcome |-> "returned"]

\* "return self.get_readings()": the attempt ends the call at once
ReturnCall(c) ==
  [attempts |-> c.attempts + 1, fails |-> c.fails, sleeps |-> c.sleeps,
   outcome |-> "returned"]

\* Meteostick.get_readings: buf.strip()
get_readings(b) == Strip(b, Whitespace)

\* readline() returns the bytes b without an error
get_readings_ok(b) ==
  /\ pc = "streaming"
  /\ CurCall.attempts < max_tries
  /\ buf' = b
  /\ \E r \in {get_readings(b)} :
     \E d \in {IF r # "" THEN parse_readings(r, iss_channel, temp_hum_1_channel,
                                             temp_hum_2_channel)
               ELSE EmptyDict} :
     \E conv \in {data_to_packet(d, last_rain_count, rain_per_tip)} :
     LET \* "if readings:" and "if data:"
         mk == r # "" /\ DOMAIN d # {}
         err == IF mk /\ DEBUG_RFS # 0 THEN update_rf_error(d) ELSE "ok"
         upd == IF mk /\ DEBUG_RFS # 0 /\ err = "ok"
                THEN update_rf_stats(rf_stats, d["channel"], d["rf_signal"])
                ELSE rf_stats
     IN /\ call' = ReturnCall(CurCall)
        /\ readings' = r
        /\ data' = d
        /\ IF ~mk
           THEN /\ packet' = EmptyDict
                /\ yielded' = FALSE
                /\ UNCHANGED << last_rain_count, rf_stats, pc, exc >>
           ELSE /\ packet' = conv.packet
                /\ last_rain_count' = conv.last_rain_count
                /\ IF err # "ok"
                   THEN \* _update_rf_stats raises before the yield
                        /\ yielded' = FALSE
                        /\ pc' = "raised"
                        /\ exc' = err
                        /\ UNCHANGED rf_stats
                   ELSE /\ yielded' = TRUE
                        /\ UNCHANGED << pc, exc >>
                        /\ IF DEBUG_RFS # 0
                           THEN \* more than 300 s since the last report:
                                \* _report_rf_stats and _init_rf_stats
                                \E elapsed \in BOOLEAN :
                                  /\ elapsed \/ Samples(upd) <= MaxRfSamples
                                  /\ rf_stats' = IF elapsed THEN init_rf_stats
                                                 ELSE upd
                           ELSE UNCHANGED rf_stats
  /\ streak' = 0
  /\ UNCHANGED << fnVars, cfgVars, ready, step, written, inbuf, total_fails >>

\* the retry loop running once more than max_tries
get_readings_fail_offbyone ==
  /\ pc = "streaming"
  /\ CurCall.attempts <= max_tries
  /\ LET last == CurCall.attempts + 1 = max_tries + 1
     IN /\ call' = [attempts |-> CurCall.attempts + 1,
                    fails |-> CurCall.fails + 1,
                    sleeps |-> CurCall.sleeps + 1,
                    outcome |-> IF last THEN "raised" ELSE "running"]
        /\ pc' = IF last THEN "raised" ELSE pc
        /\ exc' = IF last THEN "RetriesExceeded" ELSE exc
  /\ streak' = streak + 1
  /\ total_fails' = Min2(total_fails + 1, MaxTotalFails)
  /\ UNCHANGED << fnVars, cfgVars, last_rain_count, rf_stats, buf, readings, data,
                  packet, yielded, ready, step, written, inbuf >>

\* the read without the except clause: the serial error leaves as it is
get_readings_fail_raw ==
  /\ pc = "streaming"
  /\ CurCall.attempts < max_tries
  /\ call' = [attempts |-> CurCall.attempts + 1, fails |-> CurCall.fails + 1,
              sleeps |-> CurCall.sleeps, outcome |-> "raised"]
  /\ pc' = "raised"
  /\ exc' = "SerialException"
  /\ streak' = streak + 1
  /\ total_fails' = Min2(total_fails + 1, MaxTotalFails)
  /\ UNCHANGED << fnVars, cfgVars, last_rain_count, rf_stats, buf, readings, data,
                  packet, yielded, ready, step, written, inbuf >>

\* readline() raises SerialException: log, sleep, next ntries; after the
\* last ntries the else clause of the for loop raises RetriesExceeded
get_readings_fail ==
  /\ pc = "streaming"
  /\ CurCall.attempts < max_tries
  /\ LET last == CurCall.attempts + 1 = max_tries
     IN /\ call' = [attempts |-> CurCall.attempts + 1,
                    fails |-> CurCall.fails + 1,
                    sleeps |-> CurCall.sleeps + 1,
                    outcome |-> IF last THEN "raised" ELSE "running"]
        /\ pc' = IF last THEN "raised" ELSE pc
        /\ exc' = IF last THEN "RetriesExceeded" ELSE exc
  /\ streak' = streak + 1
  /\ total_fails' = Min2(total_fails + 1, MaxTotalFails)
  /\ UNCHANGED << fnVars, cfgVars, last_rain_count, rf_stats, buf, readings, data,
                  packet, yielded, ready, step, written, inbuf >>

\* range(0, max_tries) is empty: the else clause raises without an attempt
retries_exceeded_at_once ==
  /\ pc = "streaming"
  /\ CurCall.attempts >= max_tries
  /\ call' = [NoCall EXCEPT !.outcome = "raised"]
  /\ pc' = "raised"
  /\ exc' = "RetriesExceeded"
  /\ UNCHANGED << fnVars, cfgVars, last_rain_count, rf_stats, buf, readings, data,
                  packet, yielded, ready, step, written, inbuf,
                  streak, total_fails >>

Next ==
  \/ \E c \in DeviceBytes : DeviceEmits(c)
  \/ InitTransportError
  \/ open
  \/ configure_reset
  \/ configure_wait
  \/ send_command
  \/ \E b \in WireLines : get_readings_ok(b)
  \/ get_readings_fail
  \/ retries_exceeded_at_once

Spec == Init /\ [][Next]_vars

\* __init__ runs open() and configure() in one thread: every sleep returns
\* and every serial call returns or raises, so a step of the handshake that
\* stays possible is taken.  Nothing is assumed of the device.
SpecLive ==
  /\ Init /\ [][Next]_vars
  /\ WF_vars(open)
  /\ WF_vars(configure_reset)
  /\ WF_vars(configure_wait)
  /\ WF_vars(send_command)

(***************************************************************************)
(* Properties.                                                             *)
(***************************************************************************)
Constructed == step = NumCommands + 1

IsPrefix(a, b) == Len(a) <= Len(b) /\ a = SubSeq(b, 1, Len(a))

C1_Expected ==
  << "r\n",
     "x" \o Str(rf_threshold) \o "\r",
     "t" \o Str(transmitters) \o "\r",
     "f1\r",
     "o1\r",
     CASE frequency = "AU" -> "m2\r" [] frequency = "EU" -> "m1\r"
       [] OTHER -> "m0\r" >>

\* C1: the commands written during construction are, in this order and each
\* once, reset, threshold, transmitters, filter, output mode and the
\* frequency command of the band (m0 for a band that is neither AU nor EU);
\* no line is read by the streaming loop before the frequency command.
C1_CommandSequence ==
  /\ IsPrefix(written, C1_Expected)
  /\ (Constructed \/ pc = "streaming") => written = C1_Expected
  /\ (call # NoCall) => written = C1_Expected

C1_Witness ==
  /\ pc = "streaming"
  /\ frequency = "XX"
  /\ call.outcome = "returned"
  /\ written = << "r\n", "x180\r", "t1\r", "f1\r", "o1\r", "m0\r" >>

\* C2: no configuration command is written, and configure() does not go on,
\* before the '?' has been read after the reset command; the flag is set
\* only by a reset wait that read a '?'.
C2_SentinelGate ==
  /\ [](/\ Len(written) > 1 => ready
        /\ pc \in {"configuring", "streaming"} => ready
        /\ Constructed => ready)
  /\ [][ /\ (ready' /\ ~ready) => (pc = "resetting" /\ HasChar(inbuf, "?"))
         /\ (pc = "resetting" /\ ~HasChar(inbuf, "?"))
              => (pc' \in {"resetting", "raised"} /\ written' = written) ]_vars

C2_Witness ==
  /\ ready
  /\ pc = "configuring"
  /\ Len(written) = 2

\* C3: one call of get_readings_with_retry makes at most max_tries attempts,
\* returns at the first attempt that does not raise (all attempts before it
\* raised, none follows it), and raises RetriesExceeded exactly when all
\* max_tries attempts raised.
C3_BoundedRetry ==
  /\ call.attempts <= max_tries
  /\ call.outcome = "returned" => call.fails = call.attempts - 1
  /\ call.outcome = "running" => (call.fails = call.attempts /\ call.attempts < max_tries)
  /\ call.outcome = "raised" <=> exc = "RetriesExceeded"
  /\ call.outcome = "raised" => (call.attempts = max_tries /\ call.fails = max_tries)
  /\ (call.outcome # "none" /\ call.attempts = max_tries /\ call.fails = max_tries)
       => call.outcome = "raised"

C3_Witness ==
  /\ max_tries = 2
  /\ call = [attempts |-> 2, fails |-> 1, sleeps |-> 1, outcome |-> "returned"]

\* C4 as stated: a transport error reaches the caller only as
\* RetriesExceeded, never as the raw serial error.
C4_Original ==
  (pc = "raised" /\ exc \in {"SerialException", "RetriesExceeded"})
    => exc = "RetriesExceeded"

\* C4 (amended): a transport error of a read of the streaming loop is
\* retried and leaves only as RetriesExceeded, after max_tries failed
\* attempts of one call; the raw serial error leaves only from open() and
\* configure(), before any reading was attempted.
C4_ReadErrorsRetried ==
  /\ exc = "SerialException" => (~Constructed /\ call = NoCall)
  /\ call.fails > 0 => exc # "SerialException"
  /\ exc = "RetriesExceeded" => (Constructed /\ call.fails = max_tries)

C4_Witness ==
  /\ pc = "raised"
  /\ exc = "RetriesExceeded"
  /\ max_tries = 2
  /\ call.fails = 2

\* C5 as stated: whatever line is received, the streaming loop is ended by
\* RetriesExceeded only.
C5_OnlyRetriesExceededEndsLoop ==
  (pc = "raised" /\ Constructed) => exc = "RetriesExceeded"

KnownTags == {"B", "W", "T", "L", "M", "O", "R", "S", "U", "P", "#"}

MinTokens(tag) ==
  CASE tag = "B" -> 3
    [] tag \in {"W", "T", "L", "M", "O"} -> 5
    [] tag \in {"R", "S", "U", "P"} -> 4
    [] OTHER -> 0

\* a line with an unknown tag, or with fewer tokens than its tag needs
Malformed(r) ==
  /\ r # ""
  /\ \/ Split(r)[1] \notin KnownTags
     \/ Len(Split(r)) < MinTokens(Split(r)[1])

\* C6 as stated: a line with too few tokens for its tag, or with an unknown
\* tag, makes the streaming loop emit no packet.
C6_MalformedYieldsNoPacket ==
  Malformed(readings) => ~yielded

\* a line with enough tokens for its tag and a token that is not numeric
\* where the tag needs a number
BadNumeric(r) ==
  /\ r # ""
  /\ LET p == Split(r)
         tag == p[1]
     IN /\ tag \in KnownTags \ {"#"}
        /\ Len(p) >= MinTokens(tag)
        /\ ~ CASE tag = "B" ->
                    /\ FloatOk(p[2]) /\ FloatOk(p[3])
                    /\ (Len(p) >= 4 => FloatOk(Strip(p[4], {"%"})))
               [] tag \in {"W", "T"} ->
                    IntOk(p[2]) /\ FloatOk(p[3]) /\ FloatOk(p[4]) /\ FloatOk(p[5])
               [] tag \in {"L", "M", "O"} ->
                    IntOk(p[2]) /\ FloatOk(p[4]) /\ FloatOk(p[5])
               [] tag = "R" ->
                    IntOk(p[2]) /\ IntOk(p[3]) /\ FloatOk(p[4])
               [] tag \in {"S", "U", "P"} ->
                    IntOk(p[2]) /\ FloatOk(p[3]) /\ FloatOk(p[4])

\* C7 as stated: a line with a non-numeric token where a number is needed
\* contributes nothing: no value of it is in the parse result or the packet.
C7_BadNumericContributesNothing ==
  BadNumeric(readings) =>
    /\ \A k \in DOMAIN data :
         \/ IsNone(data[k])
         \* the constants of a B line are not taken from the line
         \/ (Split(readings)[1] = "B" /\ k \in {"channel", "rf_signal"}
             /\ data[k] = PyI(0))
    /\ yielded => DOMAIN packet \subseteq {"dateTime", "usUnits"}

\* C8: a read that times out (readline() returns nothing) ends the call at
\* once as a return, with no retry consumed and no sleep; the iteration
\* parses nothing, yields no packet, leaves the rain state alone and the
\* loop goes on reading.
C8_EmptyRead ==
  /\ []((call.outcome = "returned" /\ buf = "")
          => /\ readings = "" /\ data = EmptyDict /\ packet = EmptyDict
             /\ ~yielded /\ pc = "streaming" /\ exc = "none")
  /\ [][ (pc = "streaming" /\ buf # "" /\ buf' = "")
           => /\ call' = [attempts |-> CurCall.attempts + 1,
                          fails |-> CurCall.fails,
                          sleeps |-> CurCall.sleeps,
                          outcome |-> "returned"]
              /\ last_rain_count' = last_rain_count
              /\ pc' = "streaming" ]_vars

C8_Witness ==
  /\ buf = ""
  /\ call = [attempts |-> 2, fails |-> 1, sleeps |-> 1, outcome |-> "returned"]
  /\ last_rain_count = PyI(5)
  /\ pc = "streaming"

\* C9: the first rain reading yields delta 0; a later one yields
\* raw - last, plus 128 when that is negative; the raw count always becomes
\* the new baseline; the rain of the packet is delta * rain_per_tip.
C9_RainDelta ==
  [][ (pc = "streaming" /\ call'.outcome = "returned"
       /\ "rain_count" \in DOMAIN data')
        => LET raw == data'["rain_count"][2]
               diff == raw - last_rain_count[2]
               delta == IF IsNone(last_rain_count) THEN 0
                        ELSE IF diff < 0 THEN diff + 128 ELSE diff
           IN /\ last_rain_count' = PyI(raw)
              /\ "rain" \in DOMAIN packet'
              /\ packet'["rain"] = PyF(delta * rain_per_tip) ]_vars

\* 5, 10, 3 were read: the last delta is 121
C9_Witness ==
  /\ yielded
  /\ "rain" \in DOMAIN packet
  /\ packet["rain"] = PyF(121 * rain_per_tip)
  /\ last_rain_count = PyI(3)

\* C10 as stated: the baseline is unset or in 0..127.
C10_Original ==
  IsNone(last_rain_count) \/ last_rain_count[2] \in 0..127

\* C10 (amended): the baseline is unset or in 0..255; it is the raw count
\* of the latest rain reading, stored as received.
C10_BaselineIsRawCount ==
  /\ IsNone(last_rain_count) \/ last_rain_count[2] \in 0..255
  /\ "rain_count" \in DOMAIN data => last_rain_count = data["rain_count"]

C10_Witness ==
  last_rain_count = PyI(200)

\* a step of the streaming loop in which readline() returned
ReadReturned == pc = "streaming" /\ call'.outcome = "returned"

\* C11: the rain baseline changes only in an iteration whose reading has a
\* rain_count, and every such iteration sets it to that count; a reading of
\* another type, an empty or malformed line, a transport error or a retry
\* leave it as it is, and once set it is never unset again.
C11_BaselineFrame ==
  [][ /\ (last_rain_count' # last_rain_count)
           => (ReadReturned /\ "rain_count" \in DOMAIN data')
      /\ (ReadReturned /\ "rain_count" \in DOMAIN data')
           => last_rain_count' = data'["rain_count"]
      /\ ~IsNone(last_rain_count) => ~IsNone(last_rain_count') ]_vars

\* a wind reading was processed after the baseline was set
C11_Witness ==
  /\ last_rain_count = PyI(10)
  /\ buf = "W 1 3.5 270 -60\r\n"
  /\ yielded

\* C12 as stated: a parse result has channel and rf_signal both set or both
\* unset.
C12_ChannelAndSignalTogether ==
  readings # "" => (IsNone(data["channel"]) <=> IsNone(data["rf_signal"]))

\* the bitmask with bit (c-1) set exactly for the channels c of the set chs
RECURSIVE MaskUpTo(_, _)
MaskUpTo(chs, c) ==
  IF c = 0 THEN 0
  ELSE (IF c \in chs THEN Pow2(c - 1) ELSE 0) + MaskUpTo(chs, c - 1)

\* C13 as stated: ch_to_xmit returns the bitmask in which bit (c-1) is set
\* exactly for each channel c in 1-8 given as a non-zero argument, also
\* when two roles are given the same channel.
C13_BitmaskOfChannels ==
  (args \in XmitArgs /\ result # Unset)
    => result = PyI(MaskUpTo({args[i] : i \in 2..6} \ {0}, MaxChannel))

\* the multiple of 5 nearest to n >= 0 (no n is half way between two)
Nearest5(n) == CHOOSE m \in 0..(n + 2) : m % 5 = 0 /\ m - 2 <= n /\ n <= m + 2

\* C14: for every integer request r, sens_to_threshold returns (2*s, s)
\* where s = ((|r| + 2) div 5) * 5, replaced by 90 when that exceeds 125;
\* so s is a multiple of 5 in [0,125], the threshold is in [0,250], and
\* 90 -> (180,90), 92 -> (180,90), 93 -> (190,95), 130 -> (180,90).
\* (r and -r share |r|, so the result depends on |r| only.)
C14_RoundAndClamp ==
  (args \in SensArgs /\ result # Unset) =>
    LET r == args[2]
        a == IF r < 0 THEN 0 - r ELSE r
        s == IF Nearest5(a) > 125 THEN 90 ELSE Nearest5(a)
    IN /\ result = << 2 * s, s >>
       /\ result = sens_to_threshold(0 - r)
       /\ result[2] % 5 = 0 /\ result[2] \in 0..125
       /\ result[1] \in 0..250
       /\ a = 90 => result = << 180, 90 >>
       /\ a = 92 => result = << 180, 90 >>
       /\ a = 93 => result = << 190, 95 >>
       /\ a = 130 => result = << 180, 90 >>

\* a negative request beyond the range came back as the default
C14_Witness ==
  /\ args = <<"sens_to_threshold", -130>>
  /\ result = << 180, 90 >>

\* parse_readings has returned for the line args[2]
Parsed == args \in ParseArgs /\ result # Unset

\* the first token of a non-empty line is none of the one-character tags
UnknownTag(raw) == raw # "" /\ Split(raw)[1] \notin KnownTags

\* C15: for every line whose first token is not a known tag, parse_readings
\* returns a result different from the one it returns for empty input:
\* empty input gives the no-reading value, an unknown tag does not.
C15_UnknownTagIsNotEmpty ==
  Parsed =>
    /\ args[2] = "" => result = EmptyDict
    /\ UnknownTag(args[2]) =>
         /\ result # EmptyDict
         /\ result # parse_readings("", args[3], args[4], args[5])

C15_Witness ==
  /\ args = <<"parse_readings", "Z 1 2 3", 1, 0, 0>>
  /\ result = NewData

\* C16 as stated: every non-empty line whose first token is not exactly one
\* of the single characters B W T L M O R S U P # takes the unknown-tag
\* path and sets neither channel nor rf_signal nor any observation.
C16_OneCharacterDispatch ==
  (Parsed /\ UnknownTag(args[2])) => result = NewData

\* C17 as stated: once the '?' has been read configure() always completes,
\* and a '?' emitted after the reset always leads to streaming.
C17_Original ==
  /\ ready ~> Constructed
  /\ (pc = "resetting" /\ HasChar(inbuf, "?")) ~> (pc = "streaming")

\* C17: once the '?' has been read after the reset, configure() sends all
\* five commands and returns whatever the device echoes (or does not echo),
\* unless a serial call raises; so a '?' emitted after the reset leads to
\* streaming or to the transport error leaving __init__.
C17_HandshakeEnds ==
  /\ ready ~> (Constructed \/ exc = "SerialException")
  /\ (pc = "resetting" /\ HasChar(inbuf, "?"))
       ~> (pc = "streaming" \/ exc = "SerialException")

C17_Witness ==
  /\ ready
  /\ Constructed
  /\ pc = "streaming"
  /\ call.outcome = "none"
  /\ exc = "none"

\* a well-formed W or T line has been parsed: its tag, its channel, and the
\* keys of the result besides channel and rf_signal
LineTag == Split(args[2])[1]
LineChannel == IntVal(Split(args[2])[2])
ObsKeys == (DOMAIN result) \ {"channel", "rf_signal"}
WTParsed == Parsed /\ args[2] \in ChannelBodies

\* C18 as stated: the destination keys are chosen by equality of the line's
\* channel with iss_channel (W) and th1_channel, th2_channel (T), for every
\* combination of channels 0-8.
C18_Original ==
  WTParsed =>
    LET c == LineChannel
    IN /\ LineTag = "W" =>
            ObsKeys = {"wind_speed", "wind_dir",
                       IF c = args[3] THEN "bat_iss" ELSE "bat_anemometer"}
       /\ LineTag = "T" =>
            ObsKeys = IF c = args[4] THEN {"temp_1", "humid_1", "bat_th_1"}
                      ELSE IF c = args[5] THEN {"temp_2", "humid_2", "bat_th_2"}
                      ELSE {"temperature", "humidity", "bat_iss"}

\* C18: a configured channel of 0 matches no line.  A W line sets bat_iss
\* when iss_channel is not 0 and equals its channel, bat_anemometer
\* otherwise; a T line sets temp_1/humid_1/bat_th_1 when th1_channel is not
\* 0 and equals its channel, else temp_2/humid_2/bat_th_2 when th2_channel
\* is not 0 and equals its channel, else temperature/humidity/bat_iss;
\* exactly one key group is populated, and the channel is the line's.
C18_KeysByNonZeroChannel ==
  WTParsed =>
    LET c == LineChannel
    IN /\ result["channel"] = PyI(c)
       /\ LineTag = "W" =>
            ObsKeys = {"wind_speed", "wind_dir",
                       IF args[3] # 0 /\ c = args[3]
                       THEN "bat_iss" ELSE "bat_anemometer"}
       /\ LineTag = "T" =>
            ObsKeys = IF args[4] # 0 /\ c = args[4]
                      THEN {"temp_1", "humid_1", "bat_th_1"}
                      ELSE IF args[5] # 0 /\ c = args[5]
                      THEN {"temp_2", "humid_2", "bat_th_2"}
                      ELSE {"temperature", "humidity", "bat_iss"}

\* a T line of channel 0 parsed with th1_channel = 0 went to the ISS keys
C18_Witness ==
  /\ args = <<"parse_readings", "T 0 20.5 55 -60", 1, 0, 3>>
  /\ WTParsed
  /\ "temperature" \in DOMAIN result
  /\ "temp_1" \notin DOMAIN result

\* C19 as stated: the sleep happens only between attempts, so a call that
\* ended has slept once less than it attempted, and a call that exhausted
\* max_tries attempts has slept max_tries - 1 times.
C19_SleepOnlyBetweenAttempts ==
  /\ (call.outcome \in {"returned", "raised"} /\ call.attempts > 0)
       => call.sleeps = call.attempts - 1
  /\ (exc = "RetriesExceeded" /\ max_tries > 0)
       => call.sleeps = max_tries - 1

\* C20: the retry count is per call.  While a call runs its attempts are
\* the failed reads since the last read that returned, whatever failed in
\* earlier calls; RetriesExceeded is raised only when the failures of one
\* call reach max_tries, so a run whose calls all have fewer than max_tries
\* consecutive failures never raises it, however many reads failed in all.
C20_RetryCountPerCall ==
  /\ call.outcome = "running" => (call.attempts = streak /\ call.fails = streak)
  /\ exc = "RetriesExceeded" => streak = max_tries
  /\ streak < max_tries => exc # "RetriesExceeded"

\* more reads failed in the session than max_tries, spread over calls that
\* each returned, and the loop is still running
C20_Witness ==
  /\ max_tries = 2
  /\ total_fails = MaxTotalFails
  /\ call.outcome = "returned"
  /\ call.fails = 1
  /\ pc = "streaming"
  /\ exc = "none"

\* C21 as stated: for every sequence of received rain counts in 0-255 the
\* rain delta of each reading is never negative and is at most 127, so the
\* rain of a packet (delta * rain_per_tip) is never negative.
C21_RainDeltaInRange ==
  "rain" \in DOMAIN packet
    => /\ packet["rain"][2] >= 0
       /\ packet["rain"][2] <= 127 * rain_per_tip

\* C22 as stated: every sensitivity request outside the valid range, with
\* |requested| > 125, is replaced by the default: sens_to_threshold returns
\* threshold 180 and actual sensitivity 90 (126 and 127 included).
C22_OutOfRangeGivesDefault ==
  (args \in SensArgs /\ result # Unset /\ Abs(args[2]) > 125)
    => result = << 2 * DEFAULT_RF_SENSITIVITY, DEFAULT_RF_SENSITIVITY >>

\* C22: the range test is made on the rounded value.  Requests with
\* |requested| >= 128 round to more than 125 and come back as the default
\* (threshold 180, sensitivity 90); 126 and 127 round to 125 and come back
\* as threshold 250, sensitivity 125; no request in 0..125 is replaced.
C22_RoundedOutOfRangeGivesDefault ==
  (args \in SensArgs /\ result # Unset) =>
    LET a == IF args[2] < 0 THEN 0 - args[2] ELSE args[2]
    IN /\ a >= 128 => result = << 180, 90 >>
       /\ a \in {126, 127} => result = << 250, 125 >>
       /\ (a <= 127 /\ result = << 180, 90 >>) => a \in 88..92

\* the request 127 came back as sensitivity 125, not as the default
C22_Witness ==
  /\ args = <<"sens_to_threshold", 127>>
  /\ result = << 250, 125 >>

====
